---- MODULE Spec2Model ----
(***************************************************************************)
(* netchoo: a GTK network traffic monitor (src/netchoo/netchoo.py).        *)
(*                                                                         *)
(* The model covers the part of the program that holds state:              *)
(*   NetworkStats   - enumeration of /proc/net/dev, counter reads and the  *)
(*                    rate computation against the previous snapshot;      *)
(*   TrafficGraph   - the time-windowed series and its auto-scaled         *)
(*                    max_rate;                                            *)
(*   NetworkMonitor - the registry of graphs and the periodic tick;        *)
(*   main           - argument validation and start-up.                    *)
(*                                                                         *)
(* Conventions.  time.time() is an integer number of seconds; every call   *)
(* draws a reading that may be later than, equal to or (a stepped wall     *)
(* clock) earlier than the previous one.  Python floats are modelled as    *)
(* exact rationals [num, den] in lowest terms, so x / y, x * 0.8, x * 1.2  *)
(* and x * 1.5 are exact.  A line of /proc/net/dev is its text up to and   *)
(* including the colon, plus the two byte counters the code parses.        *)
(***************************************************************************)
EXTENDS Integers, Sequences, FiniteSets, TLC

\* ------------------------------------------------------------------ bounds

\* Largest clock reading explored.
MaxTime == 4
\* Largest value of the -t/--time argument explored.
MaxWindow == 2
\* Number of get_traffic_rates / update_traffic calls explored.
MaxTicks == 3
\* Number of add_data_point calls explored on a series exercised alone.
MaxAppends == 3
\* Largest value of the -s/--sample argument explored.
MaxSample == 1
\* Largest whole number of seconds between two periodic appends.
MaxInterval == 2
\* Number of periodic appends explored.
MaxPeriods == 4
\* Number of update_traffic calls explored under fairness.
MaxLiveTicks == 2

\* --------------------------------------------------------------- rationals

RECURSIVE GCD(_, _)
GCD(a, b) == IF b = 0 THEN a ELSE GCD(b, a % b)

Abs(x) == IF x < 0 THEN -x ELSE x

\* n / d for d > 0, in lowest terms.
Rat(n, d) ==
    LET g == GCD(Abs(n), d)
    IN  [num |-> n \div g, den |-> d \div g]

Int2Rat(n) == [num |-> n, den |-> 1]

RatLess(a, b) == a.num * b.den < b.num * a.den

RatLeq(a, b) == a.num * b.den <= b.num * a.den

\* a * (n / d)
RatScale(a, n, d) == Rat(a.num * n, a.den * d)

\* Python's max(a, b): b only when it is strictly greater than a.
PyMax(a, b) == IF RatLess(a, b) THEN b ELSE a

RECURSIVE PyMaxOfSeq(_)
\* Python's max() of a non-empty list.
PyMaxOfSeq(s) ==
    IF Len(s) = 1 THEN s[1] ELSE PyMax(PyMaxOfSeq(SubSeq(s, 1, Len(s) - 1)), s[Len(s)])

\* ------------------------------------------------------------- environment

\* Network devices other than the loopback device.
Interfaces == {"eth0", "veth0"}

Names == Interfaces \cup {"lo"}

\* The characters of a device name.
Chars ==
    [n \in Names |->
        CASE n = "lo"    -> <<"l", "o">>
          [] n = "eth0"  -> <<"e", "t", "h", "0">>
          [] n = "veth0" -> <<"v", "e", "t", "h", "0">>]

\* Values a cumulative byte counter takes.
RxValues == {0, 600, 1048576}
TxValues == {0, 1048576}

VARIABLES
    proc_net_dev,        \* /proc/net/dev after its two header lines: rows [name, rx_bytes, tx_bytes]
    operstate,           \* /sys/class/net/<name>/operstate of the devices that have one
    now,                 \* the last reading of time.time()
    previous_stats,      \* NetworkStats.previous_stats
    rates,               \* the dict the last get_traffic_rates() returned
    graphs,              \* NetworkMonitor.graphs: name -> [data_points, max_rate]
    SERIES_TIME_WINDOW,  \* the global set by main (seconds)
    GRAPH_UPDATE_INTERVAL, \* the global set by main (milliseconds)
    pc,                  \* where the program is
    ticks,               \* calls made so far
    hist                 \* history of the last get_traffic_rates() call (not program state)

vars == <<proc_net_dev, operstate, now, previous_stats, rates, graphs,
          SERIES_TIME_WINDOW, GRAPH_UPDATE_INTERVAL, pc, ticks, hist>>

\* The empty dict.
EmptyDict == [i \in {} |-> 0]

\* The history before any call.
NoHistory ==
    [before |-> EmptyDict, current |-> EmptyDict, failed |-> {}, good |-> EmptyDict,
     scale |-> EmptyDict, reconciled |-> {}, dropped |-> {}, listed |-> {},
     listing |-> [called |-> FALSE], reading |-> [called |-> FALSE]]

RowNames(table) == {table[k].name : k \in 1..Len(table)}

\* A reading of time.time() after the reading `t`.
ClockReadings(t) == {u \in 0..MaxTime : t - 1 <= u /\ u <= t + 2}

Range(s) == {s[k] : k \in 1..Len(s)}

\* ------------------------------------------- the system, as the program sees it

\* A device is registered: a new row with zeroed counters and an operstate.
DeviceAppears(i, st) ==
    /\ i \notin RowNames(proc_net_dev)
    /\ proc_net_dev' = Append(proc_net_dev, [name |-> i, rx_bytes |-> 0, tx_bytes |-> 0])
    /\ operstate' = [n \in DOMAIN operstate \cup {i} |-> IF n = i THEN st ELSE operstate[n]]
    /\ UNCHANGED <<now, previous_stats, rates, graphs, SERIES_TIME_WINDOW, GRAPH_UPDATE_INTERVAL, pc, ticks, hist>>

\* A device is unregistered: its row and its operstate file are gone.
DeviceVanishes(i) ==
    LET Keep(row) == row.name # i
    IN  /\ i \in RowNames(proc_net_dev)
        /\ proc_net_dev' = SelectSeq(proc_net_dev, Keep)
        /\ operstate' = [n \in DOMAIN operstate \ {i} |-> operstate[n]]
        /\ hist' = [hist EXCEPT !.good = [n \in DOMAIN hist.good \ {i} |-> hist.good[n]]]
        /\ UNCHANGED <<now, previous_stats, rates, graphs, SERIES_TIME_WINDOW, GRAPH_UPDATE_INTERVAL, pc, ticks>>

\* A device carries traffic: its cumulative counters grow.
Traffic(i, rx, tx) ==
    /\ \E k \in 1..Len(proc_net_dev) :
          /\ proc_net_dev[k].name = i
          /\ rx >= proc_net_dev[k].rx_bytes
          /\ tx >= proc_net_dev[k].tx_bytes
          /\ <<rx, tx>> # <<proc_net_dev[k].rx_bytes, proc_net_dev[k].tx_bytes>>
          /\ proc_net_dev' = [proc_net_dev EXCEPT ![k].rx_bytes = rx, ![k].tx_bytes = tx]
    /\ UNCHANGED <<operstate, now, previous_stats, rates, graphs, SERIES_TIME_WINDOW, GRAPH_UPDATE_INTERVAL, pc,
                   ticks, hist>>

\* The devices `ifs` come and go and carry traffic while the program runs.
Environment(ifs, sts, rxs, txs) ==
    \/ \E i \in ifs, st \in sts : DeviceAppears(i, st)
    \/ \E i \in ifs : DeviceVanishes(i)
    \/ \E i \in ifs, rx \in rxs, tx \in txs : Traffic(i, rx, tx)

\* ------------------------------------------------------------ NetworkStats

\* The text of a row up to its colon; what follows is digits and blanks.
LineText(row) == <<" ">> \o Chars[row.name] \o <<":">>

\* Python's `pat in text` on strings.
IsSubstring(pat, text) ==
    \E k \in 0..(Len(text) - Len(pat)) : SubSeq(text, k + 1, k + Len(pat)) = pat

\* get_interface_stats(interface): the counters of the first line that contains
\* interface + ':', and (0, 0) when open() raises (~io_ok) or no line does.
get_interface_stats(interface, table, io_ok) ==
    LET hits == {k \in 1..Len(table) :
                    IsSubstring(Chars[interface] \o <<":">>, LineText(table[k]))}
        first == CHOOSE k \in hits : \A j \in hits : k <= j
    IN  IF ~io_ok \/ hits = {} THEN <<0, 0>>
        ELSE <<table[first].rx_bytes, table[first].tx_bytes>>

\* has_traffic_or_is_up(interface): reading a missing operstate file raises, and
\* the bare except answers True.
has_traffic_or_is_up(interface, table, sys, io_ok) ==
    IF interface \notin DOMAIN sys THEN TRUE
    ELSE IF sys[interface] = "up" THEN TRUE
    ELSE LET st == get_interface_stats(interface, table, io_ok)
         IN  IF st[1] > 0 \/ st[2] > 0 THEN TRUE
             ELSE interface \in DOMAIN sys

\* get_active_interfaces(): the names listed, in file order; [] when open() raises.
get_active_interfaces(table, sys, enum_ok, io_ok) ==
    LET Listed(row) == row.name # "lo" /\ has_traffic_or_is_up(row.name, table, sys, io_ok)
        rows == SelectSeq(table, Listed)
    IN  IF enum_ok THEN [k \in 1..Len(rows) |-> rows[k].name] ELSE <<>>

\* Mutant of ClampedRate: the byte difference, not divided by the elapsed time.
ClampedRate_NoDivision(bytes, prev_bytes, time_diff) ==
    PyMax(Int2Rat(0), Int2Rat(bytes - prev_bytes))

\* Mutant of ClampedRate: the quotient without the clamp to zero.
ClampedRate_Unclamped(bytes, prev_bytes, time_diff) ==
    Rat(bytes - prev_bytes, time_diff)

\* max(0, (bytes - prev bytes) / time_diff)
ClampedRate(bytes, prev_bytes, time_diff) ==
    PyMax(Int2Rat(0), Rat(bytes - prev_bytes, time_diff))

\* Mutant of CurrentStats: the loop ends at the first interface whose read raises.
CurrentStats_AbortsOnFailedRead(current_time, active, read_ok) ==
    LET done == {k \in 1..Len(active) : \A j \in 1..k : active[j] \in read_ok}
    IN  [i \in {active[k] : k \in done} |->
            LET st == get_interface_stats(i, proc_net_dev, TRUE)
            IN  [rx_bytes |-> st[1], tx_bytes |-> st[2], time |-> current_time]]

\* The snapshots get_traffic_rates() takes: one per listed interface; the read of
\* an interface outside read_ok raises inside get_interface_stats, which catches
\* the exception and returns (0, 0).
CurrentStats(current_time, active, read_ok) ==
    [i \in Range(active) |->
        LET st == get_interface_stats(i, proc_net_dev, i \in read_ok)
        IN  [rx_bytes |-> st[1], tx_bytes |-> st[2], time |-> current_time]]

\* The interfaces get_traffic_rates() reports a rate for.
Rated(current_stats) ==
    {i \in DOMAIN current_stats \cap DOMAIN previous_stats :
        current_stats[i].time - previous_stats[i].time > 0}

\* Mutant of ComputeRates: a zero rate for an interface seen for the first time.
ComputeRates_RateOnFirstSample(current_stats) ==
    [i \in Rated(current_stats) \cup (DOMAIN current_stats \ DOMAIN previous_stats) |->
        IF i \notin DOMAIN previous_stats
        THEN [rx_rate |-> Int2Rat(0), tx_rate |-> Int2Rat(0)]
        ELSE LET prev == previous_stats[i]
                 time_diff == current_stats[i].time - prev.time
             IN  [rx_rate |-> ClampedRate(current_stats[i].rx_bytes, prev.rx_bytes, time_diff),
                  tx_rate |-> ClampedRate(current_stats[i].tx_bytes, prev.tx_bytes, time_diff)]]

\* The dict get_traffic_rates() returns.
ComputeRates(current_stats) ==
    [i \in Rated(current_stats) |->
        LET prev == previous_stats[i]
            time_diff == current_stats[i].time - prev.time
        IN  [rx_rate |-> ClampedRate(current_stats[i].rx_bytes, prev.rx_bytes, time_diff),
             tx_rate |-> ClampedRate(current_stats[i].tx_bytes, prev.tx_bytes, time_diff)]]

\* Mutant of StoredStats: the old snapshot kept when the elapsed time is not positive.
StoredStats_KeptOnBadElapsed(current_stats) ==
    [i \in DOMAIN current_stats |->
        IF i \in DOMAIN previous_stats /\ current_stats[i].time - previous_stats[i].time <= 0
        THEN previous_stats[i]
        ELSE current_stats[i]]

\* What get_traffic_rates() leaves in previous_stats.
StoredStats(current_stats) == current_stats

\* The counters of the row of `table` named i.
OwnCounters(i, table) ==
    LET k == CHOOSE k \in 1..Len(table) : table[k].name = i
    IN  [rx_bytes |-> table[k].rx_bytes, tx_bytes |-> table[k].tx_bytes]

\* The history a get_traffic_rates() call leaves: the snapshots it found stored
\* (before), the snapshots it took (current), the interfaces its enumeration
\* returned (listed), those of them whose read raised (failed), and per device
\* still registered the counters of its own row at its last read that did not
\* raise (good).
History(active, current_stats, read_ok) ==
    LET listed == Range(active)
        fresh == listed \cap read_ok \cap RowNames(proc_net_dev)
    IN  [before  |-> previous_stats,
         current |-> current_stats,
         failed  |-> listed \ read_ok,
         good    |-> [i \in DOMAIN hist.good \cup fresh |->
                        IF i \in fresh THEN OwnCounters(i, proc_net_dev)
                        ELSE hist.good[i]],
         scale   |-> hist.scale,
         reconciled |-> hist.reconciled,
         dropped |-> hist.dropped,
         listed  |-> listed,
         listing |-> hist.listing,
         reading |-> hist.reading]

\* get_traffic_rates()
get_traffic_rates(current_time, enum_ok, stat_ok, read_ok) ==
    LET active == get_active_interfaces(proc_net_dev, operstate, enum_ok, stat_ok)
        current_stats == CurrentStats(current_time, active, read_ok)
    IN  /\ now' = current_time
        /\ rates' = ComputeRates(current_stats)
        /\ previous_stats' = StoredStats(current_stats)
        /\ hist' = History(active, current_stats, read_ok)

\* ------------------------- the reads of /proc/net/dev exercised on any table

\* Values of the byte counters of a row.
ProcValues == {0, 600}

\* The orders the names in S can be listed in.
Orderings(S) ==
    {o \in [1..Cardinality(S) -> S] : \A j, k \in 1..Cardinality(S) : o[j] = o[k] => j = k}

\* The contents of /proc/net/dev: the loopback device and any of the other
\* devices, in any order, each with its counters.
Tables ==
    UNION {{[k \in 1..Cardinality(S) |->
                [name |-> o[k], rx_bytes |-> c[o[k]][1], tx_bytes |-> c[o[k]][2]]] :
              o \in Orderings(S),
              c \in {d \in [S -> ProcValues \X ProcValues] : d["lo"] = <<600, 600>>}} :
           S \in {T \cup {"lo"} : T \in SUBSET Interfaces}}

\* The operstate files: any listed device may have none (the read raises), and
\* one that has reads "up" or "down".
SysStates(table) ==
    UNION {{[n \in D \cup {"lo"} |-> IF n = "lo" THEN "unknown" ELSE f[n]] :
              f \in [D -> {"up", "down"}]} :
           D \in SUBSET (RowNames(table) \ {"lo"})}

InitProc ==
    /\ proc_net_dev \in Tables
    /\ operstate \in SysStates(proc_net_dev)
    /\ now = 0
    /\ previous_stats = EmptyDict
    /\ rates = EmptyDict
    /\ graphs = EmptyDict
    /\ SERIES_TIME_WINDOW = 300
    /\ GRAPH_UPDATE_INTERVAL = 1000
    /\ pc = "proc"
    /\ ticks = 0
    /\ hist = NoHistory

\* A call of get_active_interfaces(); the history keeps what it returned.
ListCall(enum_ok, stat_ok) ==
    /\ pc = "proc"
    /\ hist' = [hist EXCEPT !.listing =
                  [called |-> TRUE, ok |-> enum_ok,
                   names |-> get_active_interfaces(proc_net_dev, operstate, enum_ok, stat_ok)]]
    /\ UNCHANGED <<proc_net_dev, operstate, now, previous_stats, rates, graphs,
                   SERIES_TIME_WINDOW, GRAPH_UPDATE_INTERVAL, pc, ticks>>

\* A call of get_interface_stats(interface); the history keeps what it returned.
ReadCall(interface, io_ok) ==
    /\ pc = "proc"
    /\ hist' = [hist EXCEPT !.reading =
                  [called |-> TRUE, interface |-> interface, ok |-> io_ok,
                   result |-> get_interface_stats(interface, proc_net_dev, io_ok)]]
    /\ UNCHANGED <<proc_net_dev, operstate, now, previous_stats, rates, graphs,
                   SERIES_TIME_WINDOW, GRAPH_UPDATE_INTERVAL, pc, ticks>>

NextProc ==
    \/ \E enum_ok \in BOOLEAN, stat_ok \in BOOLEAN : ListCall(enum_ok, stat_ok)
    \/ \E interface \in Interfaces, io_ok \in BOOLEAN : ReadCall(interface, io_ok)

SpecProc == InitProc /\ [][NextProc]_vars

\* ------------------------------------------- NetworkStats exercised on its own

InitStats ==
    /\ proc_net_dev = <<[name |-> "lo", rx_bytes |-> 600, tx_bytes |-> 600]>>
    /\ operstate = [n \in {"lo"} |-> "unknown"]
    /\ now = 0
    /\ previous_stats = EmptyDict
    /\ rates = EmptyDict
    /\ graphs = EmptyDict
    /\ SERIES_TIME_WINDOW = 300
    /\ GRAPH_UPDATE_INTERVAL = 1000
    /\ pc = "stats"
    /\ ticks = 0
    /\ hist = NoHistory

StatsCall ==
    /\ ticks < MaxTicks
    /\ \E t \in ClockReadings(now), enum_ok \in BOOLEAN, stat_ok \in BOOLEAN,
          read_ok \in SUBSET (Interfaces \cap RowNames(proc_net_dev)) :
          get_traffic_rates(t, enum_ok, stat_ok, read_ok)
    /\ ticks' = ticks + 1
    /\ UNCHANGED <<proc_net_dev, operstate, graphs, SERIES_TIME_WINDOW, GRAPH_UPDATE_INTERVAL, pc>>

NextStats == Environment({"eth0"}, {"up", "down"}, RxValues, TxValues) \/ StatsCall

SpecStats == InitStats /\ [][NextStats]_vars

\* ------------------------------------------------------------ TrafficGraph

\* TrafficGraph.__init__: an empty deque and a scale of 1 MB/s.
NewTrafficGraph == [data_points |-> <<>>, max_rate |-> Int2Rat(1024 * 1024)]

RECURSIVE EvictOld(_, _)
\* while self.data_points and self.data_points[0][0] < cutoff_time: popleft()
EvictOld(points, cutoff_time) ==
    IF points # <<>> /\ points[1][1] < cutoff_time
    THEN EvictOld(Tail(points), cutoff_time)
    ELSE points

\* [rx for _, rx, _ in data_points] + [tx for _, _, tx in data_points]
AllRates(points) ==
    [k \in 1..(2 * Len(points)) |->
        IF k <= Len(points) THEN points[k][2] ELSE points[k - Len(points)][3]]

\* Mutant of AutoScale: the grow step scales the larger of the peak and max_rate.
AutoScale_GrowCompounds(max_rate, points) ==
    IF points = <<>> THEN max_rate
    ELSE LET max_current == PyMaxOfSeq(AllRates(points))
         IN  IF RatLess(RatScale(max_rate, 8, 10), max_current)
             THEN RatScale(PyMax(max_current, max_rate), 12, 10)
             ELSE IF RatLess(max_current, RatScale(max_rate, 3, 10))
                     /\ RatLess(Int2Rat(1024), max_rate)
                  THEN PyMax(RatScale(max_current, 15, 10), Int2Rat(1024))
                  ELSE max_rate

\* Mutant of AutoScale: the shrink step without its 1024 floor.
AutoScale_NoFloor(max_rate, points) ==
    IF points = <<>> THEN max_rate
    ELSE LET max_current == PyMaxOfSeq(AllRates(points))
         IN  IF RatLess(RatScale(max_rate, 8, 10), max_current)
             THEN RatScale(max_current, 12, 10)
             ELSE IF RatLess(max_current, RatScale(max_rate, 3, 10))
                     /\ RatLess(Int2Rat(1024), max_rate)
                  THEN RatScale(max_current, 15, 10)
                  ELSE max_rate

\* Mutant of AutoScale: the shrink threshold at 60% instead of 30%.
AutoScale_ShrinkBelowSixty(max_rate, points) ==
    IF points = <<>> THEN max_rate
    ELSE LET max_current == PyMaxOfSeq(AllRates(points))
         IN  IF RatLess(RatScale(max_rate, 8, 10), max_current)
             THEN RatScale(max_current, 12, 10)
             ELSE IF RatLess(max_current, RatScale(max_rate, 6, 10))
                     /\ RatLess(Int2Rat(1024), max_rate)
                  THEN PyMax(RatScale(max_current, 15, 10), Int2Rat(1024))
                  ELSE max_rate

\* The auto-scale step of add_data_point: the new max_rate.
AutoScale(max_rate, points) ==
    IF points = <<>> THEN max_rate
    ELSE LET max_current == PyMaxOfSeq(AllRates(points))
         IN  IF RatLess(RatScale(max_rate, 8, 10), max_current)
             THEN RatScale(max_current, 12, 10)
             ELSE IF RatLess(max_current, RatScale(max_rate, 3, 10))
                     /\ RatLess(Int2Rat(1024), max_rate)
                  THEN PyMax(RatScale(max_current, 15, 10), Int2Rat(1024))
                  ELSE max_rate

\* Mutant of Retained: the append without the eviction.
Retained_NoEviction(points, current_time, rx_rate, tx_rate, window) ==
    Append(points, <<current_time, rx_rate, tx_rate>>)

\* The deque after the append and the eviction of add_data_point.
Retained(points, current_time, rx_rate, tx_rate, window) ==
    EvictOld(Append(points, <<current_time, rx_rate, tx_rate>>), current_time - window)

\* TrafficGraph.add_data_point(rx_rate, tx_rate), called when time.time() reads
\* current_time and the global SERIES_TIME_WINDOW is `window`.
add_data_point(graph, current_time, rx_rate, tx_rate, window) ==
    LET kept == Retained(graph.data_points, current_time, rx_rate, tx_rate, window)
    IN  [data_points |-> kept, max_rate |-> AutoScale(graph.max_rate, kept)]

\* ------------------------------------------- a TrafficGraph exercised on its own

\* Rates handed to add_data_point.
RateInputs == {0, 600, 840, 524288, 850000, 2000000}
Samples == {<<Int2Rat(r), Int2Rat(0)>> : r \in RateInputs} \cup {<<Int2Rat(0), Int2Rat(1200000)>>}

InitGraph ==
    /\ proc_net_dev = <<[name |-> "lo", rx_bytes |-> 600, tx_bytes |-> 600]>>
    /\ operstate = [n \in {"lo"} |-> "unknown"]
    /\ now = 0
    /\ previous_stats = EmptyDict
    /\ rates = EmptyDict
    /\ graphs = [i \in {"eth0"} |-> NewTrafficGraph]
    /\ SERIES_TIME_WINDOW \in 1..MaxWindow
    /\ GRAPH_UPDATE_INTERVAL = 1000
    /\ pc = "graph"
    /\ ticks = 0
    /\ hist = NoHistory

GraphCall ==
    /\ ticks < MaxAppends
    /\ \E t \in ClockReadings(now), s \in Samples :
          /\ now' = t
          /\ graphs' = [i \in DOMAIN graphs |->
                          add_data_point(graphs[i], t, s[1], s[2], SERIES_TIME_WINDOW)]
    /\ hist' = [hist EXCEPT !.scale = [i \in DOMAIN graphs |-> graphs[i].max_rate]]
    /\ ticks' = ticks + 1
    /\ UNCHANGED <<proc_net_dev, operstate, previous_stats, rates, SERIES_TIME_WINDOW, GRAPH_UPDATE_INTERVAL, pc>>

NextGraph == GraphCall

SpecGraph == InitGraph /\ [][NextGraph]_vars

\* ------------------------- a TrafficGraph fed at exact intervals by the timer

\* Sample intervals of a whole number of seconds, in milliseconds.
PeriodicIntervals == {1000 * k : k \in 1..MaxInterval}

PeriodicSamples == {s \in Samples : s[1].num \in {0, 600, 2000000}}

InitPeriodic ==
    /\ proc_net_dev = <<[name |-> "lo", rx_bytes |-> 600, tx_bytes |-> 600]>>
    /\ operstate = [n \in {"lo"} |-> "unknown"]
    /\ now = 0
    /\ previous_stats = EmptyDict
    /\ rates = EmptyDict
    /\ graphs = [i \in {"eth0"} |-> NewTrafficGraph]
    /\ SERIES_TIME_WINDOW \in 1..MaxWindow
    /\ GRAPH_UPDATE_INTERVAL \in PeriodicIntervals
    /\ pc = "sampling"
    /\ ticks = 0
    /\ hist = NoHistory

\* add_data_point called by a timer that fires exactly every GRAPH_UPDATE_INTERVAL
\* milliseconds, read by a clock that runs true.
PeriodicCall ==
    /\ pc = "sampling"
    /\ ticks < MaxPeriods
    /\ \E s \in PeriodicSamples :
          LET t == IF ticks = 0 THEN now ELSE now + GRAPH_UPDATE_INTERVAL \div 1000
          IN  /\ now' = t
              /\ graphs' = [i \in DOMAIN graphs |->
                              add_data_point(graphs[i], t, s[1], s[2], SERIES_TIME_WINDOW)]
    /\ ticks' = ticks + 1
    /\ UNCHANGED <<proc_net_dev, operstate, previous_stats, rates, SERIES_TIME_WINDOW,
                   GRAPH_UPDATE_INTERVAL, pc, hist>>

NextPeriodic == PeriodicCall

SpecPeriodic == InitPeriodic /\ [][NextPeriodic]_vars

\* ---------------------------------------------------------- NetworkMonitor

\* Mutant of update_interfaces: the rows of the interfaces not listed are kept.
update_interfaces_KeepsVanished(rows, active_interfaces) ==
    [i \in Range(active_interfaces) \cup DOMAIN rows |->
        IF i \in DOMAIN rows THEN rows[i] ELSE NewTrafficGraph]

\* Mutant of update_interfaces: every listed interface gets a new TrafficGraph.
update_interfaces_ResetsKept(rows, active_interfaces) ==
    [i \in Range(active_interfaces) |-> NewTrafficGraph]

\* update_interfaces(): a row with a new TrafficGraph for every listed interface
\* that has none, and the rows of the interfaces not listed removed.
update_interfaces(rows, active_interfaces) ==
    [i \in Range(active_interfaces) |->
        IF i \in DOMAIN rows THEN rows[i] ELSE NewTrafficGraph]

\* Mutant of UpdateGraphs: a graph whose interface has no reported rate is skipped.
UpdateGraphs_SkipsUnrated(rows, reported, current_time, window) ==
    [i \in DOMAIN rows |->
        IF i \in DOMAIN reported
        THEN add_data_point(rows[i], current_time, reported[i].rx_rate,
                            reported[i].tx_rate, window)
        ELSE rows[i]]

\* The loop of update_traffic over self.graphs: the reported rate, or (0, 0), is
\* added to every graph; the add_data_point calls read the clock as current_time.
UpdateGraphs(rows, reported, current_time, window) ==
    [i \in DOMAIN rows |->
        IF i \in DOMAIN reported
        THEN add_data_point(rows[i], current_time, reported[i].rx_rate,
                            reported[i].tx_rate, window)
        ELSE add_data_point(rows[i], current_time, Int2Rat(0), Int2Rat(0), window)]

\* Values of the -t/--time argument.
TimeArgs == 0..MaxWindow

\* The program before main() runs.  The system holds eth0, which comes, goes and
\* receives traffic while the program runs, and veth0, an idle device that stays.
Init ==
    /\ proc_net_dev = <<[name |-> "lo", rx_bytes |-> 600, tx_bytes |-> 600],
                        [name |-> "eth0", rx_bytes |-> 0, tx_bytes |-> 0],
                        [name |-> "veth0", rx_bytes |-> 0, tx_bytes |-> 0]>>
    /\ operstate = [n \in Names |-> IF n = "lo" THEN "unknown" ELSE "up"]
    /\ now = 0
    /\ previous_stats = EmptyDict
    /\ rates = EmptyDict
    /\ graphs = EmptyDict
    /\ SERIES_TIME_WINDOW = 300
    /\ GRAPH_UPDATE_INTERVAL = 1000
    /\ pc = "start"
    /\ ticks = 0
    /\ hist = NoHistory

\* main() with a time window that is not positive: the error is printed and
\* main returns 1.  args.sample is stored and not looked at.
MainRejects(time, sample) ==
    /\ pc = "start"
    /\ time <= 0
    /\ SERIES_TIME_WINDOW' = time
    /\ GRAPH_UPDATE_INTERVAL' = sample
    /\ pc' = "exited"
    /\ UNCHANGED <<proc_net_dev, operstate, now, previous_stats, rates, graphs, ticks, hist>>

\* main() with a positive time window: NetworkMonitor.__init__ runs
\* update_interfaces() once and schedules update_traffic every
\* GRAPH_UPDATE_INTERVAL milliseconds.
MainStarts(time, sample, enum_ok, stat_ok) ==
    /\ pc = "start"
    /\ time > 0
    /\ SERIES_TIME_WINDOW' = time
    /\ GRAPH_UPDATE_INTERVAL' = sample
    /\ LET active == get_active_interfaces(proc_net_dev, operstate, enum_ok, stat_ok)
       IN  /\ graphs' = update_interfaces(EmptyDict, active)
           /\ hist' = [hist EXCEPT !.reconciled = Range(active)]
    /\ pc' = "idle"
    /\ UNCHANGED <<proc_net_dev, operstate, now, previous_stats, rates, ticks>>

\* update_traffic(), first statement: self.update_interfaces().
TickUpdateInterfaces(enum_ok, stat_ok) ==
    /\ pc = "idle"
    /\ ticks < MaxTicks
    /\ LET active == get_active_interfaces(proc_net_dev, operstate, enum_ok, stat_ok)
       IN  /\ graphs' = update_interfaces(graphs, active)
           /\ hist' = [hist EXCEPT !.reconciled = Range(active)]
    /\ pc' = "rates"
    /\ UNCHANGED <<proc_net_dev, operstate, now, previous_stats, rates, SERIES_TIME_WINDOW, GRAPH_UPDATE_INTERVAL,
                   ticks>>

\* update_traffic(), second statement: rates = self.net_stats.get_traffic_rates().
TickGetTrafficRates(current_time, enum_ok, stat_ok, read_ok) ==
    /\ pc = "rates"
    /\ get_traffic_rates(current_time, enum_ok, stat_ok, read_ok)
    /\ pc' = "graphs"
    /\ UNCHANGED <<proc_net_dev, operstate, graphs, SERIES_TIME_WINDOW, GRAPH_UPDATE_INTERVAL, ticks>>

\* The interfaces the tick that ends now found in neither of its two enumerations
\* although it had a graph or a snapshot of them.
DroppedNow ==
    {i \in DOMAIN hist.before : i \notin hist.reconciled /\ i \notin DOMAIN hist.current}

\* Mutant of TickUpdateGraphs: `return bool(rates)`, which ends the timeout when
\* no rate was reported.
TickUpdateGraphs_StopsWhenNoRates(current_time) ==
    /\ pc = "graphs"
    /\ now' = current_time
    /\ graphs' = UpdateGraphs(graphs, rates, current_time, SERIES_TIME_WINDOW)
    /\ hist' = [hist EXCEPT !.scale = [i \in DOMAIN graphs |-> graphs[i].max_rate],
                            !.dropped = hist.dropped \cup DroppedNow]
    /\ ticks' = ticks + 1
    /\ pc' = IF rates = EmptyDict THEN "exited" ELSE "idle"
    /\ UNCHANGED <<proc_net_dev, operstate, previous_stats, rates, SERIES_TIME_WINDOW,
                   GRAPH_UPDATE_INTERVAL>>

\* update_traffic(), the loop over the graphs and `return True`.
TickUpdateGraphs(current_time) ==
    /\ pc = "graphs"
    /\ now' = current_time
    /\ graphs' = UpdateGraphs(graphs, rates, current_time, SERIES_TIME_WINDOW)
    /\ hist' = [hist EXCEPT !.scale = [i \in DOMAIN graphs |-> graphs[i].max_rate],
                            !.dropped = hist.dropped \cup DroppedNow]
    /\ ticks' = ticks + 1
    /\ pc' = "idle"
    /\ UNCHANGED <<proc_net_dev, operstate, previous_stats, rates, SERIES_TIME_WINDOW, GRAPH_UPDATE_INTERVAL>>

\* A failed read of veth0 returns the (0, 0) a good read returns, so only the
\* reads of eth0 are let fail.  -s/--sample is left at its default.
Next ==
    \/ Environment({"eth0"}, {"up"}, {0, 1048576}, {0})
    \/ \E time \in TimeArgs : MainRejects(time, GRAPH_UPDATE_INTERVAL)
    \/ \E time \in TimeArgs, enum_ok \in BOOLEAN :
          MainStarts(time, GRAPH_UPDATE_INTERVAL, enum_ok, enum_ok)
    \/ \E enum_ok \in BOOLEAN : TickUpdateInterfaces(enum_ok, enum_ok)
    \/ \E t \in ClockReadings(now), enum_ok \in BOOLEAN,
          read_ok \in {Interfaces, Interfaces \ {"eth0"}} :
          TickGetTrafficRates(t, enum_ok, enum_ok, read_ok)
    \/ TickUpdateGraphs(now)

Spec == Init /\ [][Next]_vars

\* The statements of update_traffic() after the first: the GTK main loop runs the
\* callback it has entered to its end.
TickGoesOn ==
    \/ \E t \in ClockReadings(now), enum_ok \in BOOLEAN,
          read_ok \in {Interfaces, Interfaces \ {"eth0"}} :
          TickGetTrafficRates(t, enum_ok, enum_ok, read_ok)
    \/ TickUpdateGraphs(now)

\* The program of Spec for MaxLiveTicks ticks.
NextLive ==
    \/ Environment({"eth0"}, {"up"}, {0, 1048576}, {0})
    \/ \E time \in TimeArgs : MainRejects(time, GRAPH_UPDATE_INTERVAL)
    \/ \E time \in TimeArgs, enum_ok \in BOOLEAN :
          MainStarts(time, GRAPH_UPDATE_INTERVAL, enum_ok, enum_ok)
    \/ \E enum_ok \in BOOLEAN : ticks < MaxLiveTicks /\ TickUpdateInterfaces(enum_ok, enum_ok)
    \/ TickGoesOn

\* update_traffic() moves on to its next statement.
TickAdvances == (pc = "rates" /\ pc' = "graphs") \/ (pc = "graphs" /\ pc' = "idle")

\* A tick that has begun is not left unfinished for ever: update_traffic is one
\* call on the single GTK thread.  A tick that aborted would show as a step to a
\* pc other than the next statement's, not as a tick that waits.
SpecLive == Init /\ [][NextLive]_vars /\ WF_pc(TickAdvances)

\* ------------------------------------------- start-up with any -t and -s

\* Values of the -s/--sample argument.
SampleArgs == 0..MaxSample

\* main() with any pair of arguments, then the ticks on a system that stays as
\* it is.
NextMain ==
    \/ \E time \in TimeArgs, sample \in SampleArgs : MainRejects(time, sample)
    \/ \E time \in TimeArgs, sample \in SampleArgs, enum_ok \in BOOLEAN :
          MainStarts(time, sample, enum_ok, enum_ok)
    \/ \E enum_ok \in BOOLEAN : TickUpdateInterfaces(enum_ok, enum_ok)
    \/ \E t \in ClockReadings(now), enum_ok \in BOOLEAN :
          TickGetTrafficRates(t, enum_ok, enum_ok, Interfaces)
    \/ TickUpdateGraphs(now)

SpecMain == Init /\ [][NextMain]_vars

\* ----------------------------------------------------- claims on NetworkStats

\* The interfaces the last call listed that had a stored previous snapshot.
Compared == DOMAIN hist.before \cap DOMAIN hist.current

\* The elapsed time the last call found for interface i.
Elapsed(i) == hist.current[i].time - hist.before[i].time

\* r * elapsed = bytes, for a rational r.
IsBytesOver(r, bytes, elapsed) == r.num * elapsed = bytes * r.den

\* C1: for every interface with a stored previous snapshot, when the elapsed time
\* is strictly positive and neither counter has decreased, the reported rx_rate is
\* (rx_bytes - previous rx_bytes) / elapsed, the tx_rate likewise, and both are
\* >= 0, after any sequence of calls.
C1_RateIsDeltaOverElapsed ==
    \A i \in Compared :
        LET prev == hist.before[i]
            cur == hist.current[i]
        IN  (Elapsed(i) > 0 /\ cur.rx_bytes >= prev.rx_bytes /\ cur.tx_bytes >= prev.tx_bytes)
            => /\ i \in DOMAIN rates
               /\ IsBytesOver(rates[i].rx_rate, cur.rx_bytes - prev.rx_bytes, Elapsed(i))
               /\ IsBytesOver(rates[i].tx_rate, cur.tx_bytes - prev.tx_bytes, Elapsed(i))
               /\ rates[i].rx_rate.num >= 0 /\ rates[i].rx_rate.den > 0
               /\ rates[i].tx_rate.num >= 0 /\ rates[i].tx_rate.den > 0

\* A call found two seconds elapsed and both counters grown.
C1_Witness ==
    \E i \in Compared :
        /\ Elapsed(i) = 2
        /\ hist.current[i].rx_bytes > hist.before[i].rx_bytes
        /\ hist.current[i].tx_bytes > hist.before[i].tx_bytes
        /\ i \in DOMAIN rates

\* C2: with elapsed > 0, a counter lower than the stored previous one gives a rate
\* of exactly 0 in that direction; the other direction is not zeroed by it; and no
\* reported rate is negative in any reachable state.
C2_RegressionClampedPerDirection ==
    /\ \A i \in DOMAIN rates :
          /\ rates[i].rx_rate.num >= 0 /\ rates[i].rx_rate.den > 0
          /\ rates[i].tx_rate.num >= 0 /\ rates[i].tx_rate.den > 0
    /\ \A i \in Compared :
          LET prev == hist.before[i]
              cur == hist.current[i]
          IN  Elapsed(i) > 0 =>
                /\ i \in DOMAIN rates
                /\ cur.rx_bytes < prev.rx_bytes => rates[i].rx_rate.num = 0
                /\ cur.tx_bytes < prev.tx_bytes => rates[i].tx_rate.num = 0
                /\ (cur.rx_bytes < prev.rx_bytes /\ cur.tx_bytes >= prev.tx_bytes)
                     => IsBytesOver(rates[i].tx_rate, cur.tx_bytes - prev.tx_bytes, Elapsed(i))
                /\ (cur.tx_bytes < prev.tx_bytes /\ cur.rx_bytes >= prev.rx_bytes)
                     => IsBytesOver(rates[i].rx_rate, cur.rx_bytes - prev.rx_bytes, Elapsed(i))

\* A call found the rx counter lower and the tx counter higher than stored.
C2_Witness ==
    \E i \in Compared :
        /\ Elapsed(i) > 0
        /\ hist.current[i].rx_bytes < hist.before[i].rx_bytes
        /\ hist.current[i].tx_bytes > hist.before[i].tx_bytes
        /\ i \in DOMAIN rates

C4_FailedReadAffectsThatTickOnly ==
    [][\A i \in hist.failed \cap DOMAIN hist.good \cap DOMAIN rates' :
          (ticks' = ticks + 1 /\ i \notin hist'.failed /\ i \in RowNames(proc_net_dev))
          => LET own == OwnCounters(i, proc_net_dev)
                 good == hist.good[i]
                 elapsed == now' - previous_stats[i].time
             IN  /\ rates'[i].rx_rate.num * elapsed
                       <= (own.rx_bytes - good.rx_bytes) * rates'[i].rx_rate.den
                 /\ rates'[i].tx_rate.num * elapsed
                       <= (own.tx_bytes - good.tx_bytes) * rates'[i].tx_rate.den]_vars

\* C5: the first call that sees an interface with no stored snapshot reports no
\* rate for it and stores its snapshot; a rate is reported only for an interface
\* whose snapshot the call before had stored.
C5_FirstSampleIsBaselineOnly ==
    /\ \A i \in DOMAIN hist.current \ DOMAIN hist.before :
          /\ i \notin DOMAIN rates
          /\ i \in DOMAIN previous_stats
          /\ previous_stats[i] = hist.current[i]
    /\ \A i \in DOMAIN rates : i \in DOMAIN hist.before

\* A call listed an interface that had no stored snapshot.
C5_Witness ==
    \E i \in DOMAIN hist.current \ DOMAIN hist.before :
        /\ ticks >= 2
        /\ hist.current[i].rx_bytes > 0

\* C11, as claimed: get_active_interfaces never lists the loopback device, and
\* lists a non-loopback interface exactly when its operstate reads "up", or its
\* rx and tx byte counters are both nonzero, or its state could not be read; an
\* interface whose state is readable and not "up" and whose counters are not both
\* nonzero is not listed.
C11_ListedExactlyWhenActive ==
    hist.listing.called =>
        /\ "lo" \notin Range(hist.listing.names)
        /\ hist.listing.ok =>
              \A i \in RowNames(proc_net_dev) \ {"lo"} :
                  i \in Range(hist.listing.names)
                  <=> \/ i \notin DOMAIN operstate
                      \/ operstate[i] = "up"
                      \/ /\ OwnCounters(i, proc_net_dev).rx_bytes # 0
                         /\ OwnCounters(i, proc_net_dev).tx_bytes # 0

\* C13: get_interface_stats does not raise to get_traffic_rates and returns (0, 0)
\* when the read of the interface raises; within one call, a failed read of one
\* interface does not keep the snapshots of the other listed interfaces from being
\* taken and stored, nor their rates from being computed.
C13_FailedReadIsZeroAndLocal ==
    /\ \A i \in hist.failed :
          /\ i \in DOMAIN hist.current
          /\ hist.current[i].rx_bytes = 0
          /\ hist.current[i].tx_bytes = 0
    /\ \A i \in hist.listed :
          /\ i \in DOMAIN hist.current
          /\ i \in DOMAIN previous_stats
          /\ previous_stats[i] = hist.current[i]
          /\ (i \in DOMAIN hist.before /\ hist.current[i].time - hist.before[i].time > 0)
                => i \in DOMAIN rates

\* A call whose read of eth0 raised, with veth0 listed after it: both snapshots
\* are stored and both rates reported.
C13_Witness ==
    /\ "eth0" \in hist.failed
    /\ "veth0" \in hist.listed
    /\ Len(proc_net_dev) = 3 /\ proc_net_dev[2].name = "eth0" /\ proc_net_dev[3].name = "veth0"
    /\ "veth0" \in DOMAIN previous_stats
    /\ "veth0" \in DOMAIN rates
    /\ "eth0" \in DOMAIN rates

\* C19, as claimed: get_interface_stats(X) returns the rx and tx counters of X's
\* own row of the table, for every set of interface names present, including when
\* an interface whose name ends with X (veth0 for eth0) is listed before X.
C19_ReadsOwnRow ==
    (/\ hist.reading.called
     /\ hist.reading.ok
     /\ hist.reading.interface \in RowNames(proc_net_dev))
    => LET own == OwnCounters(hist.reading.interface, proc_net_dev)
       IN  hist.reading.result = <<own.rx_bytes, own.tx_bytes>>

\* ----------------------------------------------------- claims on TrafficGraph

\* The graphs an add_data_point call has been made on.
Scaled == DOMAIN hist.scale \cap DOMAIN graphs

\* The rates of the retained samples, both directions.
RetainedRates(i) ==
    {graphs[i].data_points[k][2] : k \in 1..Len(graphs[i].data_points)}
        \cup {graphs[i].data_points[k][3] : k \in 1..Len(graphs[i].data_points)}

\* The peak: the maximum rx or tx rate over the retained samples.
Peak(i) == CHOOSE p \in RetainedRates(i) : \A q \in RetainedRates(i) : RatLeq(q, p)

\* x is above / below n tenths of y.
AboveTenths(x, n, y) == x.num * y.den * 10 > n * y.num * x.den
BelowTenths(x, n, y) == x.num * y.den * 10 < n * y.num * x.den

\* C7, as claimed: after every add_data_point, for every retained sample s, the
\* timestamp of the most recently appended sample minus the timestamp of s is at
\* most SERIES_TIME_WINDOW, after any sequence of appends.
C7_NoSampleOlderThanWindow ==
    \A i \in DOMAIN graphs :
        LET pts == graphs[i].data_points
        IN  \A k \in 1..Len(pts) : pts[Len(pts)][1] - pts[k][1] <= SERIES_TIME_WINDOW

\* C8, as claimed: on every add_data_point in which the peak is above 80% of the
\* current max_rate, max_rate after the call is at least max_rate before the call.
C8_ScaleDoesNotDropAboveEightyPercent ==
    \A i \in Scaled :
        (graphs[i].data_points # <<>> /\ AboveTenths(Peak(i), 8, hist.scale[i]))
        => RatLeq(hist.scale[i], graphs[i].max_rate)

\* C9: on every add_data_point that takes the shrink branch (peak below 30% of
\* max_rate and max_rate above 1024), the new max_rate is max(peak * 1.5, 1024),
\* is not greater than the old max_rate and is not below 1024.
C9_ShrinkKeepsFloor ==
    \A i \in Scaled :
        LET before == hist.scale[i]
            after == graphs[i].max_rate
            target == [num |-> Peak(i).num * 3, den |-> Peak(i).den * 2]
        IN  (graphs[i].data_points # <<>> /\ BelowTenths(Peak(i), 3, before)
                /\ RatLess(Int2Rat(1024), before))
            => /\ RatLeq(target, after) /\ RatLeq(Int2Rat(1024), after)
               /\ RatLeq(after, target) \/ after = Int2Rat(1024)
               /\ RatLeq(after, before)

\* A call shrank the scale to a value above the floor.
C9_Witness ==
    \E i \in Scaled :
        /\ BelowTenths(Peak(i), 3, hist.scale[i])
        /\ RatLess(Int2Rat(1024), hist.scale[i])
        /\ RatLess(Int2Rat(1024), graphs[i].max_rate)
        /\ RatLess(graphs[i].max_rate, hist.scale[i])

\* C10: on every add_data_point in which the peak lies between 30% and 80% of
\* max_rate inclusive, or is below 30% while max_rate <= 1024, max_rate is left
\* unchanged.
C10_ScaleUnchangedInBand ==
    \A i \in Scaled :
        LET before == hist.scale[i]
        IN  (graphs[i].data_points # <<>>
                /\ \/ ~BelowTenths(Peak(i), 3, before) /\ ~AboveTenths(Peak(i), 8, before)
                   \/ BelowTenths(Peak(i), 3, before) /\ RatLeq(before, Int2Rat(1024)))
            => graphs[i].max_rate = before

\* A call found the peak strictly inside the band and above zero.
C10_Witness ==
    \E i \in Scaled :
        /\ AboveTenths(Peak(i), 3, hist.scale[i])
        /\ BelowTenths(Peak(i), 8, hist.scale[i])
        /\ Len(graphs[i].data_points) >= 2

\* The peak of a non-empty series.
PeakOf(points) == PyMaxOfSeq(AllRates(points))

\* C17: hysteresis.  When the peak over the retained samples after an
\* add_data_point call equals the peak after the call before it, the call leaves
\* max_rate unchanged: over consecutive calls with a constant peak max_rate
\* changes on at most the first.
C17_ScaleSettlesForConstantPeak ==
    [][\A i \in DOMAIN graphs :
          (/\ ticks' = ticks + 1
           /\ graphs[i].data_points # <<>>
           /\ PeakOf(graphs'[i].data_points) = PeakOf(graphs[i].data_points))
          => graphs'[i].max_rate = graphs[i].max_rate]_vars

\* Three calls with the same peak: the first grew the scale to 1.2 times the peak
\* and the last left it there.
C17_Witness ==
    \E i \in Scaled :
        /\ Len(graphs[i].data_points) = 3
        /\ \A k \in 1..3 : graphs[i].data_points[k][2] = Int2Rat(2000000)
        /\ graphs[i].max_rate = Int2Rat(2400000)
        /\ hist.scale[i] = Int2Rat(2400000)

\* C18, as claimed: in every reachable state of a series, after any sequence of
\* add_data_point calls with non-negative rates, max_rate is at least 1024.
C18_ScaleNeverBelowFloor ==
    \A i \in DOMAIN graphs : RatLeq(Int2Rat(1024), graphs[i].max_rate)

\* C15: with appends exactly sample_interval apart and a window of
\* window_duration, the number of samples retained never exceeds
\* floor(window_duration / sample_interval) + 1, and stays at that bound once
\* sampling has run for at least window_duration (301 for 300 s and 1 s).
C15_RetainedCountBounded ==
    \A i \in DOMAIN graphs :
        LET interval == GRAPH_UPDATE_INTERVAL \div 1000
            bound == SERIES_TIME_WINDOW \div interval + 1
        IN  /\ Len(graphs[i].data_points) <= bound
            /\ (ticks >= 1 /\ (ticks - 1) * interval >= SERIES_TIME_WINDOW)
                  => Len(graphs[i].data_points) = bound

\* Two appends more than the bound have been made and the series is at the bound.
C15_Witness ==
    \E i \in DOMAIN graphs :
        /\ pc = "sampling"
        /\ Len(graphs[i].data_points) = SERIES_TIME_WINDOW \div (GRAPH_UPDATE_INTERVAL \div 1000) + 1
        /\ Len(graphs[i].data_points) >= 2
        /\ ticks >= Len(graphs[i].data_points) + 2

\* --------------------------------------------------- claims on NetworkMonitor

\* C12, as claimed: with a window <= 0 or a sample interval <= 0, main reports an
\* error and returns without creating the monitor, so the timer is never started;
\* the sampling loop is only reachable with both values strictly positive.
C12_NonPositiveConfigurationRejected ==
    /\ (pc # "start" /\ (SERIES_TIME_WINDOW <= 0 \/ GRAPH_UPDATE_INTERVAL <= 0))
          => (pc = "exited" /\ graphs = EmptyDict /\ ticks = 0)
    /\ pc \in {"idle", "rates", "graphs"}
          => (SERIES_TIME_WINDOW > 0 /\ GRAPH_UPDATE_INTERVAL > 0)

\* A tick has just ended.
TickEnded == pc = "idle" /\ ticks >= 1

C6_DroppedWhenAbsent ==
    TickEnded =>
        \A i \in Interfaces :
            (i \notin hist.reconciled /\ i \notin DOMAIN hist.current)
            => (i \notin DOMAIN graphs /\ i \notin DOMAIN previous_stats)

\* A series that update_interfaces creates is empty, with the initial scale.
C6_FreshSeriesIsEmpty ==
    \A i \in Interfaces :
        (i \notin DOMAIN graphs /\ i \in DOMAIN graphs')
        => (graphs'[i].data_points = <<>> /\ graphs'[i].max_rate = Int2Rat(1048576))

\* get_traffic_rates reports no rate for an interface it holds no snapshot of,
\* and the tick then appends the sample (0, 0) to its one-sample-longer series.
C6_NoRateAcrossGap ==
    /\ \A i \in Interfaces :
          (pc = "rates" /\ pc' = "graphs" /\ i \notin DOMAIN previous_stats)
          => i \notin DOMAIN rates'
    /\ \A i \in DOMAIN graphs :
          (pc = "graphs" /\ pc' = "idle" /\ i \notin DOMAIN hist.before)
          => LET pts == graphs'[i].data_points
             IN  /\ pts # <<>>
                 /\ pts[Len(pts)][2] = Int2Rat(0)
                 /\ pts[Len(pts)][3] = Int2Rat(0)

Reconciles == (pc = "start" /\ pc' = "idle") \/ (pc = "idle" /\ pc' = "rates")

\* C14: after every update_interfaces, the keys of the graphs registry are the
\* interfaces that enumeration returned: every newly listed interface has a fresh
\* series (no data points, max_rate 1 MiB/s), the series of every interface no
\* longer listed is removed, and the series of the others are left unchanged.
C14_ReconcileIsSetDifference ==
    [][Reconciles =>
          /\ DOMAIN graphs' = hist'.reconciled
          /\ \A i \in DOMAIN graphs \ hist'.reconciled : i \notin DOMAIN graphs'
          /\ \A i \in hist'.reconciled :
                IF i \in DOMAIN graphs
                THEN graphs'[i] = graphs[i]
                ELSE /\ graphs'[i].data_points = <<>>
                     /\ graphs'[i].max_rate = Int2Rat(1048576)]_vars

\* A tick's update_interfaces has just kept veth0's series, with its samples, and
\* created a series for eth0, which had none.
C14_Witness ==
    /\ pc = "rates"
    /\ hist.reconciled = {"eth0", "veth0"}
    /\ "eth0" \in hist.dropped
    /\ graphs["eth0"].data_points = <<>>
    /\ Len(graphs["veth0"].data_points) >= 2

\* C16: once the sampling loop is running, every tick completes and asks to be
\* rescheduled (update_traffic returns True and the timeout stays armed),
\* whatever the reads, the clock, the counters and the set of devices do.
C16_TickAlwaysCompletes ==
    /\ (pc \in {"rates", "graphs"}) ~> (pc = "idle")
    /\ [][(pc \in {"idle", "rates", "graphs"}) => (pc' \in {"idle", "rates", "graphs"})]_vars

\* A second tick has completed, in which the read of eth0 raised and the clock
\* had stepped back, and eth0 has gone since.
C16_Witness ==
    /\ TickEnded
    /\ ticks >= 2
    /\ "eth0" \notin RowNames(proc_net_dev)
    /\ "eth0" \in hist.failed
    /\ "eth0" \in Compared
    /\ Elapsed("eth0") < 0

\* C20: on every tick, update_traffic appends exactly one sample to the series of
\* every interface tracked after reconciliation: the reported (rx_rate, tx_rate)
\* when get_traffic_rates reported one for the interface, and (0, 0) when it did
\* not; no series is added, removed or appended to otherwise.
C20_OneSamplePerTrackedSeries ==
    [][(pc = "graphs" /\ pc' = "idle") =>
          /\ DOMAIN graphs = hist.reconciled
          /\ DOMAIN graphs' = DOMAIN graphs
          /\ \A i \in DOMAIN graphs :
                LET old == graphs[i].data_points
                    new == graphs'[i].data_points
                IN  /\ new # <<>>
                    /\ new[Len(new)][2] =
                          (IF i \in DOMAIN rates THEN rates[i].rx_rate ELSE Int2Rat(0))
                    /\ new[Len(new)][3] =
                          (IF i \in DOMAIN rates THEN rates[i].tx_rate ELSE Int2Rat(0))
                    /\ \E k \in 0..Len(old) :
                          SubSeq(new, 1, Len(new) - 1) = SubSeq(old, k + 1, Len(old))]_vars

\* A tick has appended the rate reported for eth0, above zero, to a series that
\* began with the (0, 0) of a baseline tick.
C20_Witness ==
    /\ TickEnded
    /\ "eth0" \in DOMAIN rates
    /\ rates["eth0"].rx_rate.num > 0
    /\ "eth0" \in DOMAIN graphs
    /\ LET pts == graphs["eth0"].data_points
       IN  /\ Len(pts) >= 2
           /\ pts[1][2] = Int2Rat(0)
           /\ pts[Len(pts)][2] = rates["eth0"].rx_rate

====
